---- MODULE Spec2Model ----
\* ----------------------------------------------------------------------
\* Model of pyo3-asyncio-macros/src/tokio.rs: the expansion of the
\* `main` attribute macro (declaration checks, attribute scan into a draft
\* Configuration, Configuration::build, code generation) followed by an
\* execution of the generated wrapper function.
\* ----------------------------------------------------------------------
EXTENDS Integers, Sequences, FiniteSets, TLC

\* Longest attribute list explored.
MaxArgs == 2

----------------------------------------------------------------------------
\* Option<T> is a sequence of length at most one.
None == <<>>
Some(x) == <<x>>
IsSome(o) == Len(o) = 1
IsNone(o) == Len(o) = 0
Unwrap(o) == o[1]

\* RuntimeFlavor
CurrentThread == "CurrentThread"
Threaded == "Threaded"
RuntimeFlavor == {CurrentThread, Threaded}

\* Result<T, E>
Ok(v) == [ok |-> TRUE, val |-> Some(v), err |-> None]
Err(e) == [ok |-> FALSE, val |-> None, err |-> Some(e)]

----------------------------------------------------------------------------
\* Spans: the source location a diagnostic is anchored at.
SpanEntry(i) == [at |-> "entry", idx |-> i]
SpanValue(i) == [at |-> "value", idx |-> i]
SpanCallSite == [at |-> "call_site", idx |-> 0]
SpanFnToken == [at |-> "fn_token", idx |-> 0]
SpanIdent == [at |-> "ident", idx |-> 0]

\* syn::Error: message template, interpolated argument, span.
Error(span, msg, arg) == [msg |-> msg, arg |-> arg, span |-> span]

\* Diagnostic messages of the source (a backtick is written ' here).
MsgFlavorTwice == "'flavor' set multiple times."
MsgWorkersTwice == "'worker_threads' set multiple times."
MsgWorkersZero == "'worker_threads' may not be 0."
MsgWorkersNeedMulti == "The 'worker_threads' option requires the 'multi_thread' runtime flavor."
MsgDefaultMultiDisabled == "The default runtime flavor is 'multi_thread', but the 'rt-multi-thread' feature is disabled."
MsgMultiNeedsFeature == "The runtime flavor 'multi_thread' requires the 'rt-multi-thread' feature."
MsgSingleThread == "The single threaded runtime flavor is called 'current_thread'."
MsgBasicScheduler == "The 'basic_scheduler' runtime flavor has been renamed to 'current_thread'."
MsgThreadedScheduler == "The 'threaded_scheduler' runtime flavor has been renamed to 'multi_thread'."
MsgNoSuchFlavor == "No such runtime flavor '{}'. The runtime flavors are 'current_thread' and 'multi_thread'."
MsgParseIntErr == "Failed to parse {} as integer: {}"
MsgParseInt == "Failed to parse {} as integer."
MsgParseString == "Failed to parse {} as string."
MsgMissingAsync == "the async keyword is missing from the function declaration"
MsgNoIdent == "Must have specified ident"
MsgExpectedLiteral == "Expected a literal value"
MsgCoreThreads == "Attribute 'core_threads' is renamed to 'worker_threads'"
MsgUnknownAttr == "Unknown attribute {} is specified; expected one of: 'flavor', 'worker_threads'"
MsgUseFlavorMulti == "Set the runtime flavor with #[pyo3_async_runtimes::tokio::main(flavor = \"multi_thread\")]."
MsgUseFlavorCurrent == "Set the runtime flavor with #[pyo3_async_runtimes::tokio::main(flavor = \"current_thread\")]."
MsgRequiresArgument == "The '{}' attribute requires an argument."
MsgUnknownInside == "Unknown attribute inside the macro"
MsgMainArgs == "the main function cannot accept arguments"

----------------------------------------------------------------------------
\* Literals and expressions on the right of `name = value`.
\* kind: Str, Int (fits usize), IntBig (an integer literal whose digits
\* exceed usize::MAX), Verbatim, Bool (any other literal kind), Expr (not
\* a literal).
Lit(kind, s, n) == [kind |-> kind, s |-> s, n |-> n]
LitStr(s) == Lit("Str", s, 0)
LitInt(n) == Lit("Int", "", n)
LitIntBig == Lit("IntBig", "", 0)
LitVerbatim(s) == Lit("Verbatim", s, 0)
LitBool == Lit("Bool", "", 0)
ExprCall == Lit("Expr", "", 0)

FlavorStrings ==
    {"current_thread", "multi_thread", "single_thread", "basic_scheduler",
     "threaded_scheduler", "Multi_Thread"}
WorkerCounts == {0, 1, 4}

\* Attribute entries (syn::Meta): NameValue, Path (bare name), List.
NameValue(key, value) == [shape |-> "NameValue", key |-> key, value |-> value]
Path(key) == [shape |-> "Path", key |-> key, value |-> LitBool]
MetaList(key) == [shape |-> "List", key |-> key, value |-> LitBool]

\* Identifiers as written; a key with `::` is a path of several segments.
MultiSegment == {"tokio::flavor"}

Entries ==
    {NameValue("flavor", LitStr(s)) : s \in FlavorStrings}
    \cup {NameValue("Flavor", LitStr("current_thread")),
          NameValue("flavor", LitInt(1)),
          NameValue("flavor", LitVerbatim("1q")),
          NameValue("flavor", ExprCall)}
    \cup {NameValue("worker_threads", LitInt(n)) : n \in WorkerCounts}
    \cup {NameValue("WORKER_THREADS", LitInt(4)),
          NameValue("worker_threads", LitIntBig),
          NameValue("worker_threads", LitStr("multi_thread")),
          NameValue("worker_threads", ExprCall)}
    \cup {NameValue("core_threads", LitInt(4)),
          NameValue("max_threads", LitInt(4)),
          NameValue("tokio::flavor", LitStr("multi_thread"))}
    \cup {Path(k) : k \in {"multi_thread", "threaded_scheduler", "current_thread",
                           "basic_scheduler", "single_threaded", "flavor",
                           "worker_threads", "Current_Thread", "single_thread",
                           "tokio::flavor"}}
    \cup {MetaList("flavor")}

\* str::to_lowercase on the identifiers that occur.
ToLowercase(s) ==
    CASE s = "Flavor" -> "flavor"
      [] s = "WORKER_THREADS" -> "worker_threads"
      [] s = "Current_Thread" -> "current_thread"
      [] s = "Multi_Thread" -> "multi_thread"
      [] OTHER -> s

\* syn::Path::get_ident: Some only for a single-segment path.
GetIdent(key) == IF key \in MultiSegment THEN None ELSE Some(key)

----------------------------------------------------------------------------
\* Fault variant of RuntimeFlavor::from_str: the legacy names fall through to
\* the catch-all arm.
RuntimeFlavor_from_str_NoLegacyArms(s) ==
    CASE s = "current_thread" -> Ok(CurrentThread)
      [] s = "multi_thread" -> Ok(Threaded)
      [] OTHER -> Err([msg |-> MsgNoSuchFlavor, arg |-> s])

\* RuntimeFlavor::from_str
RuntimeFlavor_from_str(s) ==
    CASE s = "current_thread" -> Ok(CurrentThread)
      [] s = "multi_thread" -> Ok(Threaded)
      [] s = "single_thread" -> Err([msg |-> MsgSingleThread, arg |-> ""])
      [] s = "basic_scheduler" -> Err([msg |-> MsgBasicScheduler, arg |-> ""])
      [] s = "threaded_scheduler" -> Err([msg |-> MsgThreadedScheduler, arg |-> ""])
      [] OTHER -> Err([msg |-> MsgNoSuchFlavor, arg |-> s])

\* parse_int: LitInt::base10_parse::<usize> fails on digits beyond usize::MAX.
parse_int(int, span, field) ==
    CASE int.kind = "Int" -> Ok(int.n)
      [] int.kind = "IntBig" -> Err(Error(span, MsgParseIntErr, field))
      [] OTHER -> Err(Error(span, MsgParseInt, field))

\* parse_string
parse_string(int, span, field) ==
    CASE int.kind = "Str" -> Ok(int.s)
      [] int.kind = "Verbatim" -> Ok(int.s)
      [] OTHER -> Err(Error(span, MsgParseString, field))

\* Fault variant of Configuration::new: the two default flavors swapped.
Configuration_new_SwappedDefault(is_test_, rt_multi_thread_) ==
    [rt_multi_thread_available |-> rt_multi_thread_,
     default_flavor |-> IF is_test_ THEN Threaded ELSE CurrentThread,
     flavor |-> None,
     worker_threads |-> None]

\* Configuration::new
Configuration_new(is_test_, rt_multi_thread_) ==
    [rt_multi_thread_available |-> rt_multi_thread_,
     default_flavor |-> IF is_test_ THEN CurrentThread ELSE Threaded,
     flavor |-> None,
     worker_threads |-> None]

\* The outcome of a &mut self method: the draft afterwards and the Result.
Outcome(cfg, res) == [cfg |-> cfg, res |-> res]

\* Fault variant of Configuration::set_flavor: no is_some() check, the last
\* write wins.
set_flavor_Overwrites(self, runtime, span) ==
    LET runtime_str == parse_string(runtime, span, "flavor") IN
    IF ~runtime_str.ok
    THEN Outcome(self, Err(Unwrap(runtime_str.err)))
    ELSE LET parsed == RuntimeFlavor_from_str(Unwrap(runtime_str.val)) IN
         IF ~parsed.ok
         THEN Outcome(self, Err(Error(span, Unwrap(parsed.err).msg,
                                      Unwrap(parsed.err).arg)))
         ELSE Outcome([self EXCEPT !.flavor = Some(Unwrap(parsed.val))],
                      Ok("unit"))

\* Configuration::set_flavor
set_flavor(self, runtime, span) ==
    IF IsSome(self.flavor)
    THEN Outcome(self, Err(Error(span, MsgFlavorTwice, "")))
    ELSE LET runtime_str == parse_string(runtime, span, "flavor") IN
         IF ~runtime_str.ok
         THEN Outcome(self, Err(Unwrap(runtime_str.err)))
         ELSE LET parsed == RuntimeFlavor_from_str(Unwrap(runtime_str.val)) IN
              IF ~parsed.ok
              THEN Outcome(self, Err(Error(span, Unwrap(parsed.err).msg,
                                           Unwrap(parsed.err).arg)))
              ELSE Outcome([self EXCEPT !.flavor = Some(Unwrap(parsed.val))],
                           Ok("unit"))

\* Fault variant of Configuration::set_worker_threads: no zero check.
set_worker_threads_AcceptsZero(self, worker_threads, span) ==
    IF IsSome(self.worker_threads)
    THEN Outcome(self, Err(Error(span, MsgWorkersTwice, "")))
    ELSE LET parsed == parse_int(worker_threads, span, "worker_threads") IN
         IF ~parsed.ok
         THEN Outcome(self, Err(Unwrap(parsed.err)))
         ELSE Outcome([self EXCEPT !.worker_threads =
                           Some([count |-> Unwrap(parsed.val), span |-> span])],
                      Ok("unit"))

\* Fault variant of Configuration::set_worker_threads: no is_some() check,
\* the last write wins.
set_worker_threads_Overwrites(self, worker_threads, span) ==
    LET parsed == parse_int(worker_threads, span, "worker_threads") IN
    IF ~parsed.ok
    THEN Outcome(self, Err(Unwrap(parsed.err)))
    ELSE IF Unwrap(parsed.val) = 0
         THEN Outcome(self, Err(Error(span, MsgWorkersZero, "")))
         ELSE Outcome([self EXCEPT !.worker_threads =
                           Some([count |-> Unwrap(parsed.val), span |-> span])],
                      Ok("unit"))

\* Fault variant of Configuration::set_worker_threads: the flavor conflict is
\* checked at set time against the flavor resolved so far.
set_worker_threads_EagerFlavorCheck(self, worker_threads, span) ==
    IF IsSome(self.worker_threads)
    THEN Outcome(self, Err(Error(span, MsgWorkersTwice, "")))
    ELSE LET parsed == parse_int(worker_threads, span, "worker_threads") IN
         IF ~parsed.ok
         THEN Outcome(self, Err(Unwrap(parsed.err)))
         ELSE IF Unwrap(parsed.val) = 0
              THEN Outcome(self, Err(Error(span, MsgWorkersZero, "")))
              ELSE IF (IF IsSome(self.flavor) THEN Unwrap(self.flavor)
                       ELSE self.default_flavor) = CurrentThread
                   THEN Outcome(self, Err(Error(span, MsgWorkersNeedMulti, "")))
                   ELSE Outcome([self EXCEPT !.worker_threads =
                                     Some([count |-> Unwrap(parsed.val), span |-> span])],
                                Ok("unit"))

\* Configuration::set_worker_threads
set_worker_threads(self, worker_threads, span) ==
    IF IsSome(self.worker_threads)
    THEN Outcome(self, Err(Error(span, MsgWorkersTwice, "")))
    ELSE LET parsed == parse_int(worker_threads, span, "worker_threads") IN
         IF ~parsed.ok
         THEN Outcome(self, Err(Unwrap(parsed.err)))
         ELSE IF Unwrap(parsed.val) = 0
              THEN Outcome(self, Err(Error(span, MsgWorkersZero, "")))
              ELSE Outcome([self EXCEPT !.worker_threads =
                                Some([count |-> Unwrap(parsed.val), span |-> span])],
                           Ok("unit"))

\* FinalConfig
FinalConfig(flavor, worker_threads) ==
    [flavor |-> flavor, worker_threads |-> worker_threads]

\* The flavor Configuration::build resolves: self.flavor.unwrap_or(default).
ResolvedFlavor(self) ==
    IF IsSome(self.flavor) THEN Unwrap(self.flavor) ELSE self.default_flavor

\* Fault variant of Configuration::build: the Threaded arm has no
\* rt_multi_thread_available guard.
build_IgnoresCapability(self) ==
    LET flavor == ResolvedFlavor(self) IN
    CASE flavor = CurrentThread /\ IsSome(self.worker_threads) ->
            Err(Error(Unwrap(self.worker_threads).span, MsgWorkersNeedMulti, ""))
      [] flavor = CurrentThread /\ IsNone(self.worker_threads) ->
            Ok(FinalConfig(flavor, None))
      [] OTHER ->
            Ok(FinalConfig(flavor,
                           IF IsSome(self.worker_threads)
                           THEN Some(Unwrap(self.worker_threads).count)
                           ELSE None))

\* Fault variant of Configuration::build: the capability guard applied to
\* both flavors.
build_CapabilityGatesAll(self) ==
    LET flavor == ResolvedFlavor(self) IN
    CASE ~self.rt_multi_thread_available ->
            Err(Error(SpanCallSite,
                      IF IsNone(self.flavor) THEN MsgDefaultMultiDisabled
                      ELSE MsgMultiNeedsFeature, ""))
      [] flavor = CurrentThread /\ IsSome(self.worker_threads) ->
            Err(Error(Unwrap(self.worker_threads).span, MsgWorkersNeedMulti, ""))
      [] flavor = CurrentThread /\ IsNone(self.worker_threads) ->
            Ok(FinalConfig(flavor, None))
      [] OTHER ->
            Ok(FinalConfig(flavor,
                           IF IsSome(self.worker_threads)
                           THEN Some(Unwrap(self.worker_threads).count)
                           ELSE None))

\* Fault variant of Configuration::build: worker_threads passed through for
\* CurrentThread as well.
build_PassesWorkersThrough(self) ==
    LET flavor == ResolvedFlavor(self) IN
    CASE flavor = CurrentThread \/ self.rt_multi_thread_available ->
            Ok(FinalConfig(flavor,
                           IF IsSome(self.worker_threads)
                           THEN Some(Unwrap(self.worker_threads).count)
                           ELSE None))
      [] OTHER ->
            Err(Error(SpanCallSite,
                      IF IsNone(self.flavor) THEN MsgDefaultMultiDisabled
                      ELSE MsgMultiNeedsFeature, ""))

\* Fault variant of Configuration::build: the two capability messages chosen
\* by worker_threads instead of by an explicit flavor.
build_MsgByWorkers(self) ==
    LET flavor == ResolvedFlavor(self) IN
    CASE flavor = CurrentThread /\ IsSome(self.worker_threads) ->
            Err(Error(Unwrap(self.worker_threads).span, MsgWorkersNeedMulti, ""))
      [] flavor = CurrentThread /\ IsNone(self.worker_threads) ->
            Ok(FinalConfig(flavor, None))
      [] flavor = Threaded /\ self.rt_multi_thread_available ->
            Ok(FinalConfig(flavor,
                           IF IsSome(self.worker_threads)
                           THEN Some(Unwrap(self.worker_threads).count)
                           ELSE None))
      [] OTHER ->
            Err(Error(SpanCallSite,
                      IF IsNone(self.worker_threads) THEN MsgDefaultMultiDisabled
                      ELSE MsgMultiNeedsFeature, ""))

\* Fault variant of Configuration::build: the worker_threads/flavor conflict
\* anchored at the call site.
build_AnchorsCallSite(self) ==
    LET flavor == ResolvedFlavor(self) IN
    CASE flavor = CurrentThread /\ IsSome(self.worker_threads) ->
            Err(Error(SpanCallSite, MsgWorkersNeedMulti, ""))
      [] flavor = CurrentThread /\ IsNone(self.worker_threads) ->
            Ok(FinalConfig(flavor, None))
      [] flavor = Threaded /\ self.rt_multi_thread_available ->
            Ok(FinalConfig(flavor,
                           IF IsSome(self.worker_threads)
                           THEN Some(Unwrap(self.worker_threads).count)
                           ELSE None))
      [] OTHER ->
            Err(Error(SpanCallSite,
                      IF IsNone(self.flavor) THEN MsgDefaultMultiDisabled
                      ELSE MsgMultiNeedsFeature, ""))

\* Configuration::build
build(self) ==
    LET flavor == ResolvedFlavor(self) IN
    CASE flavor = CurrentThread /\ IsSome(self.worker_threads) ->
            Err(Error(Unwrap(self.worker_threads).span, MsgWorkersNeedMulti, ""))
      [] flavor = CurrentThread /\ IsNone(self.worker_threads) ->
            Ok(FinalConfig(flavor, None))
      [] flavor = Threaded /\ self.rt_multi_thread_available ->
            Ok(FinalConfig(flavor,
                           IF IsSome(self.worker_threads)
                           THEN Some(Unwrap(self.worker_threads).count)
                           ELSE None))
      [] OTHER ->
            Err(Error(SpanCallSite,
                      IF IsNone(self.flavor) THEN MsgDefaultMultiDisabled
                      ELSE MsgMultiNeedsFeature, ""))

\* Fault variant of the NameValue arm: an unknown key is skipped.
NameValueArm_SkipsUnknown(config_, arg, i) ==
    LET ident == GetIdent(arg.key) IN
    IF IsNone(ident)
    THEN Outcome(config_, Err(Error(SpanEntry(i), MsgNoIdent, "")))
    ELSE LET name == ToLowercase(Unwrap(ident)) IN
         CASE name = "worker_threads" ->
                IF arg.value.kind # "Expr"
                THEN set_worker_threads(config_, arg.value, SpanEntry(i))
                ELSE Outcome(config_, Err(Error(SpanValue(i), MsgExpectedLiteral, "")))
           [] name = "flavor" ->
                IF arg.value.kind # "Expr"
                THEN set_flavor(config_, arg.value, SpanEntry(i))
                ELSE Outcome(config_, Err(Error(SpanValue(i), MsgExpectedLiteral, "")))
           [] OTHER -> Outcome(config_, Ok("unit"))

\* parse_knobs, the body of `for arg in args` for the entry at position i.
NameValueArm(config_, arg, i) ==
    LET ident == GetIdent(arg.key) IN
    IF IsNone(ident)
    THEN Outcome(config_, Err(Error(SpanEntry(i), MsgNoIdent, "")))
    ELSE LET name == ToLowercase(Unwrap(ident)) IN
         CASE name = "worker_threads" ->
                IF arg.value.kind # "Expr"
                THEN set_worker_threads(config_, arg.value, SpanEntry(i))
                ELSE Outcome(config_, Err(Error(SpanValue(i), MsgExpectedLiteral, "")))
           [] name = "flavor" ->
                IF arg.value.kind # "Expr"
                THEN set_flavor(config_, arg.value, SpanEntry(i))
                ELSE Outcome(config_, Err(Error(SpanValue(i), MsgExpectedLiteral, "")))
           [] name = "core_threads" ->
                Outcome(config_, Err(Error(SpanEntry(i), MsgCoreThreads, "")))
           [] OTHER ->
                Outcome(config_, Err(Error(SpanEntry(i), MsgUnknownAttr, name)))

PathArm(config_, arg, i) ==
    LET ident == GetIdent(arg.key) IN
    IF IsNone(ident)
    THEN Outcome(config_, Err(Error(SpanEntry(i), MsgNoIdent, "")))
    ELSE LET name == ToLowercase(Unwrap(ident)) IN
         CASE name \in {"threaded_scheduler", "multi_thread"} ->
                Outcome(config_, Err(Error(SpanEntry(i), MsgUseFlavorMulti, "")))
           [] name \in {"basic_scheduler", "current_thread", "single_threaded"} ->
                Outcome(config_, Err(Error(SpanEntry(i), MsgUseFlavorCurrent, "")))
           [] name \in {"flavor", "worker_threads"} ->
                Outcome(config_, Err(Error(SpanEntry(i), MsgRequiresArgument, name)))
           [] OTHER ->
                Outcome(config_, Err(Error(SpanEntry(i), MsgUnknownAttr, name)))

ScanEntry(config_, arg, i) ==
    CASE arg.shape = "NameValue" -> NameValueArm(config_, arg, i)
      [] arg.shape = "Path" -> PathArm(config_, arg, i)
      [] OTHER -> Outcome(config_, Err(Error(SpanEntry(i), MsgUnknownInside, "")))

\* parse_knobs from Configuration::new to config.build()? as one function of
\* the attribute list: Ok(FinalConfig) or the first Err.
RECURSIVE ScanFrom(_, _, _)
ScanFrom(config_, args_, i) ==
    IF i > Len(args_)
    THEN build(config_)
    ELSE LET out == ScanEntry(config_, args_[i], i) IN
         IF out.res.ok
         THEN ScanFrom(out.cfg, args_, i + 1)
         ELSE Err(Unwrap(out.res.err))

Resolve(args_, is_test_, rt_multi_thread_) ==
    ScanFrom(Configuration_new(is_test_, rt_multi_thread_), args_, 1)

----------------------------------------------------------------------------
\* Code generation: the statements of the generated `fn main()`.
Stmt(op, n) == [op |-> op, n |-> n]

\* `let builder = match config.flavor { ... }`
BuilderExpr(config_) ==
    IF config_.flavor = CurrentThread
    THEN Stmt("Builder::new_current_thread", 0)
    ELSE Stmt("Builder::new_multi_thread", 0)

\* Fault variant of builder_init: the worker_threads block replaces
\* builder_init instead of wrapping it (no `#builder_init;`).
BuilderInit_DropsEnableAll(config_) ==
    IF IsSome(config_.worker_threads)
    THEN <<Stmt("builder.worker_threads", Unwrap(config_.worker_threads))>>
    ELSE <<Stmt("builder.enable_all", 0)>>

\* `let mut builder_init = ...; if let Some(v) = config.worker_threads { ... }`
BuilderInit(config_) ==
    IF IsSome(config_.worker_threads)
    THEN <<Stmt("builder.worker_threads", Unwrap(config_.worker_threads)),
           Stmt("builder.enable_all", 0)>>
    ELSE <<Stmt("builder.enable_all", 0)>>

\* Fault variant of rt_init: the keep-alive thread is spawned for both flavors.
RtInit_AlwaysSpawns(config_) == <<Stmt("thread::spawn", 0)>>

\* `let rt_init = match config.flavor { ... }`
RtInit(config_) ==
    IF config_.flavor = CurrentThread
    THEN <<Stmt("thread::spawn", 0)>>
    ELSE <<>>

\* Fault variant of the generated body: #rt_init spliced before tokio::init.
Wrapper_SpawnBeforeInit(builder_, builder_init, rt_init) ==
    <<Stmt("prepare_freethreaded_python", 0), builder_>>
    \o builder_init
    \o rt_init
    \o <<Stmt("tokio::init", 0)>>
    \o <<Stmt("Python::with_gil", 0)>>

\* `let result = quote! { ... }`: the body of the generated function.
Wrapper(builder_, builder_init, rt_init) ==
    <<Stmt("prepare_freethreaded_python", 0), builder_>>
    \o builder_init
    \o <<Stmt("tokio::init", 0)>>
    \o rt_init
    \o <<Stmt("Python::with_gil", 0)>>

----------------------------------------------------------------------------
VARIABLES
    \* inputs of one expansion
    args,             \* Vec<syn::Meta>
    is_async,         \* input.sig.asyncness.is_some()
    fn_ident,         \* input.sig.ident
    n_inputs,         \* input.sig.inputs.len()
    rt_multi_thread,  \* capability flag
    is_test,          \* mode flag handed to parse_knobs
    \* the expansion
    pc,               \* position in main / parse_knobs
    config,           \* Option<Configuration>, the draft
    next_arg,         \* position of the loop in args
    evaluated,        \* positions of the entries the loop has matched on
    final,            \* Option<FinalConfig>
    diag,             \* Option<syn::Error>, the compile error emitted
    result,           \* the generated function's statements
    \* one execution of the generated function
    wpc,              \* statement about to run
    py_init,          \* interpreter initialised
    builder,          \* Option<Builder>
    runtime,          \* Option<Builder>: the registered process-wide runtime
    keepalive,        \* states of the spawned keep-alive threads
    early_access,     \* a keep-alive thread called get_runtime() before init
    gil,              \* holder of the interpreter's execution context
    body,             \* the user's async body
    reported,         \* error printed through the interpreter
    outcome,          \* how the generated function ended
    log               \* bootstrap steps in the order they ran

inputs == <<args, is_async, fn_ident, n_inputs, rt_multi_thread, is_test>>
expansion == <<pc, config, next_arg, evaluated, final, diag, result>>
execution == <<wpc, py_init, builder, runtime, keepalive, early_access, gil, body,
               reported, outcome, log>>
vars == <<inputs, expansion, execution>>

SeqsUpTo(S, n) == UNION {[1..k -> S] : k \in 0..n}

Init ==
    /\ args \in SeqsUpTo(Entries, MaxArgs)
    /\ is_async \in BOOLEAN
    /\ fn_ident \in {"main", "start"}
    /\ n_inputs \in {0, 1}
    /\ rt_multi_thread \in BOOLEAN
    /\ is_test \in BOOLEAN
    \* parse_knobs reads neither the name nor the parameters of the declaration
    /\ is_test => (fn_ident = "main" /\ n_inputs = 0)
    /\ pc = IF is_test THEN "parse_knobs" ELSE "main"
    /\ config = None
    /\ next_arg = 1
    /\ evaluated = <<>>
    /\ final = None
    /\ diag = None
    /\ result = <<>>
    /\ wpc = 0
    /\ py_init = FALSE
    /\ builder = None
    /\ runtime = None
    /\ keepalive = <<>>
    /\ early_access = FALSE
    /\ gil = "free"
    /\ body = "idle"
    /\ reported = FALSE
    /\ outcome = "none"
    /\ log = <<>>

\* main's check before parse_knobs.
MainRejectsInputs(ident_, n_inputs_) == ident_ = "main" /\ n_inputs_ > 0

\* main (program-entry macro): is_test is false there.
Main ==
    /\ pc = "main"
    /\ IF MainRejectsInputs(fn_ident, n_inputs)
       THEN /\ diag' = Some(Error(SpanIdent, MsgMainArgs, ""))
            /\ pc' = "rejected"
       ELSE /\ pc' = "parse_knobs"
            /\ diag' = diag
    /\ UNCHANGED <<inputs, config, next_arg, evaluated, final, result, execution>>

\* Fault variant of the asyncness check: never taken.
AsyncMissing_NeverTaken(is_async_) == FALSE

\* parse_knobs up to the loop: the asyncness check and Configuration::new.
AsyncMissing(is_async_) == ~is_async_

ParseKnobs ==
    /\ pc = "parse_knobs"
    /\ IF AsyncMissing(is_async)
       THEN /\ diag' = Some(Error(SpanFnToken, MsgMissingAsync, ""))
            /\ pc' = "rejected"
            /\ config' = config
       ELSE /\ config' = Some(Configuration_new(is_test, rt_multi_thread))
            /\ pc' = "scan"
            /\ diag' = diag
    /\ UNCHANGED <<inputs, next_arg, evaluated, final, result, execution>>

\* Fault variant of the loop: an Err is recorded and the loop goes on to the
\* next entry (no `?` / `return`).
Scan_GoesOnAfterError ==
    /\ pc = "scan"
    /\ next_arg <= Len(args)
    /\ LET out == ScanEntry(Unwrap(config), args[next_arg], next_arg) IN
       /\ evaluated' = Append(evaluated, next_arg)
       /\ config' = Some(out.cfg)
       /\ next_arg' = next_arg + 1
       /\ IF out.res.ok
          THEN /\ pc' = pc
               /\ diag' = diag
          ELSE /\ diag' = out.res.err
               /\ pc' = IF next_arg = Len(args) THEN "rejected" ELSE pc
    /\ UNCHANGED <<inputs, final, result, execution>>

\* One iteration of `for arg in args`.
Scan ==
    /\ pc = "scan"
    /\ next_arg <= Len(args)
    /\ LET out == ScanEntry(Unwrap(config), args[next_arg], next_arg) IN
       /\ evaluated' = Append(evaluated, next_arg)
       /\ config' = Some(out.cfg)
       /\ IF out.res.ok
          THEN /\ next_arg' = next_arg + 1
               /\ pc' = pc
               /\ diag' = diag
          ELSE /\ diag' = out.res.err
               /\ pc' = "rejected"
               /\ next_arg' = next_arg
    /\ UNCHANGED <<inputs, final, result, execution>>

\* `let config = config.build()?;` once the loop is over.
Build ==
    /\ pc = "scan"
    /\ next_arg > Len(args)
    /\ LET res == build(Unwrap(config)) IN
       IF res.ok
       THEN /\ final' = res.val
            /\ pc' = "codegen"
            /\ diag' = diag
       ELSE /\ diag' = res.err
            /\ pc' = "rejected"
            /\ final' = final
    /\ UNCHANGED <<inputs, config, next_arg, evaluated, result, execution>>

\* The quote! blocks: the wrapper is emitted.
Codegen ==
    /\ pc = "codegen"
    /\ result' = Wrapper(BuilderExpr(Unwrap(final)), BuilderInit(Unwrap(final)),
                         RtInit(Unwrap(final)))
    /\ pc' = "expanded"
    /\ wpc' = 1
    /\ UNCHANGED <<inputs, config, next_arg, evaluated, final, diag, py_init, builder,
                   runtime, keepalive, early_access, gil, body, reported, outcome, log>>

----------------------------------------------------------------------------
\* One execution of the generated function, statement by statement.
AtStmt(ops) ==
    /\ pc = "expanded"
    /\ wpc \in 1..Len(result)
    /\ result[wpc].op \in ops

\* pyo3::prepare_freethreaded_python();
PreparePython ==
    /\ AtStmt({"prepare_freethreaded_python"})
    /\ py_init' = TRUE
    /\ log' = Append(log, "py_init")
    /\ wpc' = wpc + 1
    /\ UNCHANGED <<inputs, expansion, builder, runtime, keepalive, early_access, gil,
                   body, reported, outcome>>

\* let mut builder = Builder::new_current_thread() | Builder::new_multi_thread();
NewBuilder ==
    /\ AtStmt({"Builder::new_current_thread", "Builder::new_multi_thread"})
    /\ builder' = Some([kind |-> IF result[wpc].op = "Builder::new_current_thread"
                                 THEN CurrentThread ELSE Threaded,
                        worker_threads |-> None,
                        enable_all |-> FALSE])
    /\ log' = Append(log, "builder_new")
    /\ wpc' = wpc + 1
    /\ UNCHANGED <<inputs, expansion, py_init, runtime, keepalive, early_access, gil,
                   body, reported, outcome>>

\* builder.worker_threads(v);
BuilderWorkerThreads ==
    /\ AtStmt({"builder.worker_threads"})
    /\ IsSome(builder)
    /\ builder' = Some([Unwrap(builder) EXCEPT !.worker_threads = Some(result[wpc].n)])
    /\ log' = Append(log, "builder_worker_threads")
    /\ wpc' = wpc + 1
    /\ UNCHANGED <<inputs, expansion, py_init, runtime, keepalive, early_access, gil,
                   body, reported, outcome>>

\* builder.enable_all();
BuilderEnableAll ==
    /\ AtStmt({"builder.enable_all"})
    /\ IsSome(builder)
    /\ builder' = Some([Unwrap(builder) EXCEPT !.enable_all = TRUE])
    /\ log' = Append(log, "builder_enable_all")
    /\ wpc' = wpc + 1
    /\ UNCHANGED <<inputs, expansion, py_init, runtime, keepalive, early_access, gil,
                   body, reported, outcome>>

\* pyo3_async_runtimes::tokio::init(builder); the builder is moved.
TokioInit ==
    /\ AtStmt({"tokio::init"})
    /\ IsSome(builder)
    /\ runtime' = builder
    /\ builder' = None
    /\ log' = Append(log, "init")
    /\ wpc' = wpc + 1
    /\ UNCHANGED <<inputs, expansion, py_init, keepalive, early_access, gil, body,
                   reported, outcome>>

\* std::thread::spawn(|| get_runtime().block_on(pending()));
SpawnKeepAlive ==
    /\ AtStmt({"thread::spawn"})
    /\ keepalive' = Append(keepalive, "spawned")
    /\ log' = Append(log, "spawn")
    /\ wpc' = wpc + 1
    /\ UNCHANGED <<inputs, expansion, py_init, builder, runtime, early_access, gil,
                   body, reported, outcome>>

\* The spawned closure: get_runtime(), then block_on a future that never resolves.
KeepAliveRun ==
    /\ \E k \in 1..Len(keepalive) :
          /\ keepalive[k] = "spawned"
          /\ keepalive' = [keepalive EXCEPT ![k] = "parked"]
    /\ early_access' = (early_access \/ IsNone(runtime))
    /\ UNCHANGED <<inputs, expansion, wpc, py_init, builder, runtime, gil, body,
                   reported, outcome, log>>

\* pyo3::Python::with_gil(|py| { ... }): the execution context is acquired.
WithGil ==
    /\ AtStmt({"Python::with_gil"})
    /\ gil = "free"
    /\ gil' = "main"
    /\ log' = Append(log, "with_gil")
    /\ wpc' = wpc + 1
    /\ UNCHANGED <<inputs, expansion, py_init, builder, runtime, keepalive,
                   early_access, body, reported, outcome>>

\* pyo3_async_runtimes::tokio::run(py, main()): the user's body starts.
RunBody ==
    /\ pc = "expanded"
    /\ gil = "main"
    /\ body = "idle"
    /\ body' = "running"
    /\ log' = Append(log, "body")
    /\ UNCHANGED <<inputs, expansion, wpc, py_init, builder, runtime, keepalive,
                   early_access, gil, reported, outcome>>

\* The body completes with Ok or with Err.
BodyCompletes ==
    /\ body = "running"
    /\ \E r \in {"ok", "err"} : body' = r
    /\ UNCHANGED <<inputs, expansion, wpc, py_init, builder, runtime, keepalive,
                   early_access, gil, reported, outcome, log>>

\* .map_err(|e| { e.print_and_set_sys_last_vars(py); })
ReportError ==
    /\ body = "err"
    /\ ~reported
    /\ outcome = "none"
    /\ reported' = TRUE
    /\ log' = Append(log, "report")
    /\ UNCHANGED <<inputs, expansion, wpc, py_init, builder, runtime, keepalive,
                   early_access, gil, body, outcome>>

\* Fault variant of the tail of the with_gil closure: the Err is dropped
\* (`.ok()` in place of `.unwrap()`), so the function returns after a failure.
UnwrapResult_SwallowsError ==
    /\ outcome = "none"
    /\ \/ body = "ok" /\ outcome' = "returned"
       \/ body = "err" /\ reported /\ outcome' = "returned"
    /\ gil' = "free"
    /\ UNCHANGED <<inputs, expansion, wpc, py_init, builder, runtime, keepalive,
                   early_access, body, reported, log>>

\* Fault variant of the tail of the generated function: the keep-alive
\* threads are joined before it ends.
UnwrapResult_JoinsKeepAlive ==
    /\ outcome = "none"
    /\ \A k \in 1..Len(keepalive) : keepalive[k] = "finished"
    /\ \/ body = "ok" /\ outcome' = "returned"
       \/ body = "err" /\ reported /\ outcome' = "panicked"
    /\ gil' = "free"
    /\ UNCHANGED <<inputs, expansion, wpc, py_init, builder, runtime, keepalive,
                   early_access, body, reported, log>>

\* .unwrap(): returns on Ok(()), panics on Err(()); the context is released.
UnwrapResult ==
    /\ outcome = "none"
    /\ \/ body = "ok" /\ outcome' = "returned"
       \/ body = "err" /\ reported /\ outcome' = "panicked"
    /\ gil' = "free"
    /\ UNCHANGED <<inputs, expansion, wpc, py_init, builder, runtime, keepalive,
                   early_access, body, reported, log>>

Next ==
    \/ Main
    \/ ParseKnobs
    \/ Scan
    \/ Build
    \/ Codegen
    \/ PreparePython
    \/ NewBuilder
    \/ BuilderWorkerThreads
    \/ BuilderEnableAll
    \/ TokioInit
    \/ SpawnKeepAlive
    \/ KeepAliveRun
    \/ WithGil
    \/ RunBody
    \/ BodyCompletes
    \/ ReportError
    \/ UnwrapResult

Spec == Init /\ [][Next]_vars

\* The statements of the generated function, run by the calling thread.
CallingThread ==
    \/ PreparePython
    \/ NewBuilder
    \/ BuilderWorkerThreads
    \/ BuilderEnableAll
    \/ TokioInit
    \/ SpawnKeepAlive
    \/ WithGil
    \/ RunBody
    \/ ReportError
    \/ UnwrapResult

\* The calling thread keeps being scheduled and the user's body completes;
\* nothing is assumed about the keep-alive thread.
FairSpec ==
    /\ Spec
    /\ WF_vars(CallingThread)
    /\ WF_vars(BodyCompletes)

----------------------------------------------------------------------------
\* Vocabulary of the properties.

\* Resolution (the scan, then Configuration::build) has started / has ended.
ResolutionStarted == IsSome(config)
ResolutionFailed == pc = "rejected" /\ IsSome(config)
ResolutionSucceeded == IsSome(final)
ResolutionDone == ResolutionFailed \/ ResolutionSucceeded
WrapperGenerated == result # <<>>
Last(s) == s[Len(s)]

\* Entries as they are written in the attribute list.
IsFlavorEntry(e) == e.shape = "NameValue" /\ e.key = "flavor"
IsWorkersEntry(e) == e.shape = "NameValue" /\ e.key = "worker_threads"
ValidFlavorEntry(e) ==
    IsFlavorEntry(e) /\ e.value \in {LitStr("current_thread"), LitStr("multi_thread")}
ValidWorkersEntry(e) ==
    IsWorkersEntry(e) /\ e.value.kind = "Int" /\ e.value.n >= 1
FlavorPositions == {i \in 1..Len(args) : IsFlavorEntry(args[i])}
WorkersPositions == {i \in 1..Len(args) : IsWorkersEntry(args[i])}
FlavorNamed(s) == IF s = "current_thread" THEN CurrentThread ELSE Threaded

\* The decision table of the build step, read off the inputs alone.
TableFlavor ==
    IF FlavorPositions # {}
    THEN FlavorNamed(args[CHOOSE i \in FlavorPositions : TRUE].value.s)
    ELSE IF is_test THEN CurrentThread ELSE Threaded
TableSuccess ==
    \/ TableFlavor = CurrentThread /\ WorkersPositions = {}
    \/ TableFlavor = Threaded /\ rt_multi_thread
AtMostOneOfEach ==
    /\ \A i \in 1..Len(args) : ValidFlavorEntry(args[i]) \/ ValidWorkersEntry(args[i])
    /\ Cardinality(FlavorPositions) <= 1
    /\ Cardinality(WorkersPositions) <= 1

\* C1: for attribute lists of valid name/value entries with at most one
\* `flavor` and at most one `worker_threads` entry, in either mode and with
\* either capability value, resolution succeeds exactly when the decision table
\* marks (resolved flavor, worker_threads presence, capability) as success.
C1_DecisionTable ==
    (AtMostOneOfEach /\ ResolutionDone) =>
        /\ ResolutionSucceeded <=> TableSuccess
        /\ ResolutionFailed <=> ~TableSuccess

C1_Witness ==
    /\ AtMostOneOfEach
    /\ Len(args) = 2
    /\ ResolutionSucceeded
    /\ Unwrap(final).flavor = Threaded
    /\ IsSome(Unwrap(final).worker_threads)

\* C2 as claimed: two `flavor` entries (or two `worker_threads` entries), with
\* any values, always end resolution with that field's "set multiple times"
\* diagnostic.
C2_AnyValuesSetTwice ==
    ResolutionDone =>
        /\ Cardinality(FlavorPositions) >= 2 =>
              ResolutionFailed /\ Unwrap(diag).msg = MsgFlavorTwice
        /\ Cardinality(WorkersPositions) >= 2 =>
              ResolutionFailed /\ Unwrap(diag).msg = MsgWorkersTwice

\* Position of the second entry of a field.
Second(S) == CHOOSE j \in S : Cardinality({i \in S : i < j}) = 1
ValidBefore(j) ==
    /\ \A i \in 1..(j - 1) : ValidFlavorEntry(args[i]) \/ ValidWorkersEntry(args[i])
    /\ Cardinality({i \in FlavorPositions : i < j}) <= 1
    /\ Cardinality({i \in WorkersPositions : i < j}) <= 1

\* C2 amended: a list with two `flavor` (or two `worker_threads`) name/value
\* entries never resolves; when every entry before the second one is valid and
\* the second one's value is a literal (any literal, equal or different, valid
\* or invalid), the diagnostic is that field's "set multiple times", anchored
\* at the second entry.
C2_SetTwice ==
    /\ (ResolutionSucceeded \/ WrapperGenerated) =>
          (Cardinality(FlavorPositions) <= 1 /\ Cardinality(WorkersPositions) <= 1)
    /\ ResolutionFailed =>
        /\ ( /\ Cardinality(FlavorPositions) >= 2
             /\ ValidBefore(Second(FlavorPositions))
             /\ args[Second(FlavorPositions)].value.kind # "Expr" ) =>
                 /\ ResolutionFailed
                 /\ Unwrap(diag) =
                       Error(SpanEntry(Second(FlavorPositions)), MsgFlavorTwice, "")
        /\ ( /\ Cardinality(WorkersPositions) >= 2
             /\ ValidBefore(Second(WorkersPositions))
             /\ args[Second(WorkersPositions)].value.kind # "Expr" ) =>
                 /\ ResolutionFailed
                 /\ Unwrap(diag) =
                       Error(SpanEntry(Second(WorkersPositions)), MsgWorkersTwice, "")

C2_Witness ==
    /\ Len(args) = 2
    /\ args[1] = NameValue("flavor", LitStr("multi_thread"))
    /\ args[2] = NameValue("flavor", LitStr("single_thread"))
    /\ ResolutionFailed
    /\ Unwrap(diag).msg = MsgFlavorTwice

\* An expansion through the program-entry macro `main` (is_test = false).
ViaMain == ~is_test
ExpansionEnded == pc \in {"rejected", "expanded"}

\* C3 as claimed: through `main`, a declaration that is not async is rejected
\* with the missing-async diagnostic, and no other check diagnoses it first.
C3_MissingAsyncFirst ==
    (ViaMain /\ ~is_async /\ ExpansionEnded) =>
        /\ pc = "rejected"
        /\ Unwrap(diag).msg = MsgMissingAsync
        /\ evaluated = <<>>

\* C3 amended: through `main`, a declaration that is not async is always
\* rejected before the draft is created and before any attribute entry is
\* evaluated; the diagnostic is the missing-async one unless the function is
\* named `main` and declares parameters, in which case the diagnostic is
\* "the main function cannot accept arguments", produced first.
C3_NonAsyncRejected ==
    (ViaMain /\ ~is_async) =>
        /\ pc \in {"main", "parse_knobs", "rejected"}
        /\ evaluated = <<>>
        /\ ~ResolutionStarted
        /\ ~WrapperGenerated
        /\ pc = "rejected" =>
              Unwrap(diag) =
                 IF fn_ident = "main" /\ n_inputs > 0
                 THEN Error(SpanIdent, MsgMainArgs, "")
                 ELSE Error(SpanFnToken, MsgMissingAsync, "")

C3_Witness ==
    /\ ViaMain
    /\ ~is_async
    /\ Len(args) = 2
    /\ args[1] = NameValue("max_threads", LitInt(4))
    /\ pc = "rejected"
    /\ Unwrap(diag).msg = MsgMissingAsync

\* C4: through `main`, a declaration with one or more parameters is rejected
\* with a diagnostic and no wrapper is generated for it, whatever its name.
C4_ParametersRejected ==
    (ViaMain /\ n_inputs > 0) =>
        /\ ~WrapperGenerated
        /\ ExpansionEnded => (pc = "rejected" /\ IsSome(diag))

\* Entries the capability claim is about.
HasEntry(e) == \E i \in 1..Len(args) : args[i] = e
IsCapabilityDiag(d) == d.msg \in {MsgDefaultMultiDisabled, MsgMultiNeedsFeature}

\* C5 as claimed: with the capability flag false, every list containing
\* flavor = "multi_thread" fails and every list containing
\* flavor = "current_thread" succeeds.
C5_CapabilityGatesThreadedOnly ==
    (~rt_multi_thread /\ ResolutionDone) =>
        /\ HasEntry(NameValue("flavor", LitStr("multi_thread"))) => ResolutionFailed
        /\ HasEntry(NameValue("flavor", LitStr("current_thread"))) => ResolutionSucceeded

\* C5 amended: with the capability flag false, in either mode, every list
\* containing flavor = "multi_thread" fails; the list whose only entry is
\* flavor = "current_thread" succeeds with {CurrentThread, None}; and a list
\* containing flavor = "current_thread" never fails with one of the two
\* capability diagnostics (it can still fail for another entry).
C5_CapabilityFalse ==
    ~rt_multi_thread =>
        /\ HasEntry(NameValue("flavor", LitStr("multi_thread"))) =>
              ~ResolutionSucceeded /\ ~WrapperGenerated
        /\ ResolutionDone =>
            /\ HasEntry(NameValue("flavor", LitStr("multi_thread"))) => ResolutionFailed
            /\ args = <<NameValue("flavor", LitStr("current_thread"))>> =>
                  final = Some(FinalConfig(CurrentThread, None))
            /\ (HasEntry(NameValue("flavor", LitStr("current_thread")))
                    /\ ResolutionFailed) =>
                  ~IsCapabilityDiag(Unwrap(diag))

C5_Witness ==
    /\ ~rt_multi_thread
    /\ ~is_test
    /\ args = <<NameValue("flavor", LitStr("current_thread"))>>
    /\ final = Some(FinalConfig(CurrentThread, None))

WorkersZero == NameValue("worker_threads", LitInt(0))

\* C6: a list containing a `worker_threads = 0` entry never resolves, in
\* either mode, with either capability value and any or no flavor entry; when
\* it is the only entry the diagnostic is "worker_threads may not be 0" at that
\* entry; and the draft never holds a zero worker count.
C6_ZeroWorkersRejected ==
    /\ HasEntry(WorkersZero) => (~ResolutionSucceeded /\ ~WrapperGenerated)
    /\ (HasEntry(WorkersZero) /\ ResolutionDone) => ResolutionFailed
    /\ (args = <<WorkersZero>> /\ ResolutionDone) =>
          Unwrap(diag) = Error(SpanEntry(1), MsgWorkersZero, "")
    /\ (ResolutionStarted /\ IsSome(Unwrap(config).worker_threads)) =>
          Unwrap(Unwrap(config).worker_threads).count >= 1

C6_Witness ==
    /\ Len(args) = 2
    /\ args[1] = NameValue("flavor", LitStr("multi_thread"))
    /\ args[2] = WorkersZero
    /\ rt_multi_thread
    /\ ResolutionFailed
    /\ Unwrap(diag).msg = MsgWorkersZero

\* Lists without a `flavor` entry, in any spelling of the key.
NoFlavorEntry ==
    \A i \in 1..Len(args) :
        ~(args[i].shape = "NameValue" /\ ToLowercase(args[i].key) = "flavor")
AllWorkersValid == \A i \in 1..Len(args) : ValidWorkersEntry(args[i])

\* C7: without a `flavor` entry the resolved flavor is CurrentThread for a
\* test-mode entry point and Threaded otherwise, the latter succeeding only
\* with the capability; [] in non-test mode with the capability resolves to
\* {Threaded, None}; a valid `flavor` entry decides the flavor in either mode.
C7_DefaultFlavor ==
    /\ (NoFlavorEntry /\ ResolutionSucceeded) =>
          /\ Unwrap(final).flavor = IF is_test THEN CurrentThread ELSE Threaded
          /\ ~is_test => rt_multi_thread
    /\ (NoFlavorEntry /\ AllWorkersValid /\ Len(args) <= 1 /\ ResolutionDone
            /\ ~is_test /\ ~rt_multi_thread) =>
          Unwrap(diag) = Error(SpanCallSite, MsgDefaultMultiDisabled, "")
    /\ (args = <<>> /\ ResolutionDone /\ is_test) =>
          final = Some(FinalConfig(CurrentThread, None))
    /\ (args = <<>> /\ ResolutionDone /\ ~is_test /\ rt_multi_thread) =>
          final = Some(FinalConfig(Threaded, None))
    /\ (Cardinality(FlavorPositions) = 1 /\ ResolutionSucceeded) =>
          /\ ValidFlavorEntry(args[CHOOSE i \in FlavorPositions : TRUE])
          /\ Unwrap(final).flavor = TableFlavor

C7_Witness ==
    /\ args = <<>>
    /\ ~is_test
    /\ rt_multi_thread
    /\ final = Some(FinalConfig(Threaded, None))

\* Legacy aliases: as the value of a `flavor` entry, and as a bare flag.
AliasValues == {"single_thread", "basic_scheduler", "threaded_scheduler"}
AliasFlags ==
    {"multi_thread", "threaded_scheduler", "current_thread", "basic_scheduler",
     "single_threaded"}
IsValueAlias(e) == IsFlavorEntry(e) /\ e.value.kind = "Str" /\ e.value.s \in AliasValues
IsFlagAlias(e) == e.shape = "Path" /\ e.key \in AliasFlags
IsAlias(e) == IsValueAlias(e) \/ IsFlagAlias(e)
Corrective(e) ==
    IF IsValueAlias(e)
    THEN CASE e.value.s = "single_thread" -> MsgSingleThread
           [] e.value.s = "basic_scheduler" -> MsgBasicScheduler
           [] OTHER -> MsgThreadedScheduler
    ELSE IF e.key \in {"multi_thread", "threaded_scheduler"}
         THEN MsgUseFlavorMulti
         ELSE MsgUseFlavorCurrent
AliasPositions == {i \in 1..Len(args) : IsAlias(args[i])}

\* C8 as claimed: a list containing a legacy alias never resolves and always
\* produces the corrective message of an alias it contains.
C8_AliasAlwaysCorrective ==
    (AliasPositions # {} /\ ResolutionDone) =>
        /\ ResolutionFailed
        /\ \E i \in AliasPositions : Unwrap(diag).msg = Corrective(args[i])

\* C8 amended: a list containing a legacy alias never resolves; whenever the
\* scan reaches the alias entry (no earlier entry fails) the diagnostic is the
\* corrective message of that alias, anchored at it, except that an alias
\* value in a `flavor` entry that follows an accepted `flavor` entry yields
\* "flavor set multiple times".
C8_AliasCorrective ==
    /\ (ResolutionSucceeded \/ WrapperGenerated) => AliasPositions = {}
    /\ \A i \in {evaluated[k] : k \in 1..Len(evaluated)} :
          IsAlias(args[i]) =>
              /\ pc = "rejected"
              /\ Unwrap(diag).span = SpanEntry(i)
              /\ Unwrap(diag).msg =
                    IF IsValueAlias(args[i])
                       /\ \E j \in 1..(i - 1) : ToLowercase(args[j].key) = "flavor"
                    THEN MsgFlavorTwice
                    ELSE Corrective(args[i])

C8_Witness ==
    /\ Len(args) = 2
    /\ args[1] = NameValue("worker_threads", LitInt(4))
    /\ args[2] = NameValue("flavor", LitStr("basic_scheduler"))
    /\ ResolutionFailed
    /\ Unwrap(diag).msg = MsgBasicScheduler

\* Entries by key, exactly as written and after lowercasing.
ExactKeyEntry(e) == e.shape = "NameValue" /\ e.key \in {"flavor", "worker_threads"}
LowercaseKeyEntry(e) ==
    /\ e.shape = "NameValue"
    /\ IsSome(GetIdent(e.key))
    /\ ToLowercase(e.key) \in {"flavor", "worker_threads"}

\* C9 as claimed: resolution succeeds only for lists made solely of name/value
\* entries whose key is exactly `flavor` or `worker_threads`.
C9_OnlyExactKeys ==
    (ResolutionSucceeded \/ WrapperGenerated) =>
        \A i \in 1..Len(args) : ExactKeyEntry(args[i])

\* C9 amended: resolution succeeds only for lists made solely of name/value
\* entries whose key, lowercased, is `flavor` or `worker_threads` (the key is
\* compared case-insensitively); a list containing a name/value entry with
\* another key (including `core_threads`), a bare name or another shape is
\* rejected with a diagnostic and yields no Final Configuration and no wrapper.
C9_OnlyKnownKeys ==
    /\ (ResolutionSucceeded \/ WrapperGenerated \/ pc \in {"codegen", "expanded"}) =>
          \A i \in 1..Len(args) : LowercaseKeyEntry(args[i])
    /\ ResolutionFailed => IsSome(diag)

C9_Witness ==
    /\ Len(args) = 2
    /\ args[1] = NameValue("flavor", LitStr("multi_thread"))
    /\ args[2] = NameValue("core_threads", LitInt(4))
    /\ rt_multi_thread
    /\ ResolutionFailed
    /\ Unwrap(diag) = Error(SpanEntry(2), MsgCoreThreads, "")

\* The bootstrap order the Final Configuration calls for.
ExpectedOrder ==
    <<"py_init", "builder_new">>
    \o (IF IsSome(Unwrap(final).worker_threads)
        THEN <<"builder_worker_threads">> ELSE <<>>)
    \o <<"builder_enable_all", "init">>
    \o (IF Unwrap(final).flavor = CurrentThread THEN <<"spawn">> ELSE <<>>)
    \o <<"with_gil", "body", "report">>
IsPrefix(s, u) == Len(s) <= Len(u) /\ \A k \in 1..Len(s) : s[k] = u[k]

\* C10: in every execution of a generated wrapper the steps run in the order
\* interpreter initialisation, builder construction and configuration,
\* registration of the runtime, spawn of the keep-alive thread (CurrentThread
\* only), acquisition of the execution context and the user's body; the body
\* never starts before the interpreter is initialised and the runtime
\* registered, and a keep-alive thread never reads the registered runtime
\* before registration.
C10_BootstrapOrder ==
    /\ log # <<>> => (ResolutionSucceeded /\ IsPrefix(log, ExpectedOrder))
    /\ body # "idle" => (py_init /\ IsSome(runtime))
    /\ body = "running" => gil = "main"
    /\ keepalive # <<>> =>
          (IsSome(runtime) /\ py_init /\ Unwrap(final).flavor = CurrentThread)
    /\ ~early_access

C10_Witness ==
    /\ body = "running"
    /\ keepalive = <<"parked">>
    /\ IsSome(Unwrap(runtime).worker_threads) = FALSE
    /\ log = <<"py_init", "builder_new", "builder_enable_all", "init", "spawn",
               "with_gil", "body">>

\* The execution has gone past the place of #rt_init in the generated body.
PastRtInit == \E k \in 1..Len(log) : log[k] = "with_gil"
KeepAliveStates == {"spawned", "parked"}

C12_FailureReportedThenAbort ==
    /\ outcome = "panicked" => (body = "err" /\ reported)
    /\ outcome = "returned" => (body = "ok" /\ ~reported)
    /\ reported => (body = "err" /\ Last(log) = "report")
    /\ body = "err" => outcome # "returned"
    /\ (body = "err" /\ ~reported) => outcome = "none"

C12_Witness ==
    /\ body = "err"
    /\ reported
    /\ outcome = "panicked"

\* Entries that set worker_threads, in any spelling of the key.
WorkersKeyPositions ==
    {i \in 1..Len(args) :
        args[i].shape = "NameValue" /\ ToLowercase(args[i].key) = "worker_threads"}

\* C13: every Final Configuration has worker_threads present only with
\* flavor Threaded; a present count is at least 1 and is the count of the
\* single worker_threads entry; flavor Threaded only with the capability; and
\* a resolution never yields both a diagnostic and a Final Configuration.
C13_FinalConfigInvariant ==
    /\ ResolutionSucceeded =>
          /\ IsSome(Unwrap(final).worker_threads) => Unwrap(final).flavor = Threaded
          /\ IsSome(Unwrap(final).worker_threads) =>
                /\ Unwrap(Unwrap(final).worker_threads) >= 1
                /\ Cardinality(WorkersKeyPositions) = 1
                /\ \A i \in WorkersKeyPositions :
                      /\ args[i].value.kind = "Int"
                      /\ args[i].value.n = Unwrap(Unwrap(final).worker_threads)
          /\ IsNone(Unwrap(final).worker_threads) => WorkersKeyPositions = {}
          /\ Unwrap(final).flavor = Threaded => rt_multi_thread
          /\ Unwrap(final).flavor \in RuntimeFlavor
    /\ ~(IsSome(diag) /\ IsSome(final))
    /\ IsSome(diag) => (pc = "rejected" /\ ~WrapperGenerated)

C13_Witness ==
    /\ Len(args) = 2
    /\ args[1] = NameValue("WORKER_THREADS", LitInt(4))
    /\ args[2] = NameValue("flavor", LitStr("multi_thread"))
    /\ final = Some(FinalConfig(Threaded, Some(4)))

\* An entry that the scan accepts when it is the first of its field.
AcceptableAlone(e) ==
    /\ LowercaseKeyEntry(e)
    /\ ToLowercase(e.key) = "flavor" =>
          e.value \in {LitStr("current_thread"), LitStr("multi_thread")}
    /\ ToLowercase(e.key) = "worker_threads" => (e.value.kind = "Int" /\ e.value.n >= 1)
\* Position i holds an invalid entry: one not acceptable alone, or one that
\* repeats the field of an earlier entry.
InvalidAt(i) ==
    \/ ~AcceptableAlone(args[i])
    \/ \E j \in 1..(i - 1) :
          /\ LowercaseKeyEntry(args[j])
          /\ ToLowercase(args[j].key) = ToLowercase(args[i].key)
InvalidPositions == {i \in 1..Len(args) : InvalidAt(i)}
FirstInvalid ==
    CHOOSE i \in 1..Len(args) : InvalidAt(i) /\ \A j \in 1..(i - 1) : ~InvalidAt(j)
BuildMsgs == {MsgWorkersNeedMulti, MsgDefaultMultiDisabled, MsgMultiNeedsFeature}

\* C14: entries are processed strictly in the given order and resolution is
\* fail-fast: the diagnostic is the one of the earliest invalid entry, no
\* entry after it is processed and the draft holds nothing from it or from
\* later entries, and the build-step diagnostics are produced only when every
\* entry was processed without error.
C14_FailFastInOrder ==
    /\ \A k \in 1..Len(evaluated) : evaluated[k] = k
    /\ ResolutionStarted => next_arg \in {Len(evaluated), Len(evaluated) + 1}
    /\ ~ResolutionStarted => (evaluated = <<>> /\ ~ResolutionSucceeded)
    /\ ResolutionSucceeded => InvalidPositions = {}
    /\ (ResolutionStarted /\ ~ResolutionSucceeded /\ InvalidPositions # {}) =>
          LET first == FirstInvalid IN
          /\ Len(evaluated) <= first
          /\ ResolutionFailed =>
                /\ Len(evaluated) = first
                /\ Unwrap(diag).span.idx = first
                /\ Unwrap(diag).span.at \in {"entry", "value"}
                /\ Unwrap(diag).msg \notin BuildMsgs
          /\ IsSome(Unwrap(config).worker_threads) =>
                Unwrap(Unwrap(config).worker_threads).span.idx < first
          /\ IsSome(Unwrap(config).flavor) =>
                \E j \in 1..(first - 1) :
                    /\ ToLowercase(args[j].key) = "flavor"
                    /\ Unwrap(Unwrap(config).flavor) = FlavorNamed(args[j].value.s)
    /\ (ResolutionDone /\ InvalidPositions = {}) =>
          /\ Len(evaluated) = Len(args)
          /\ ResolutionFailed => Unwrap(diag).msg \in BuildMsgs
    /\ (ResolutionFailed /\ Unwrap(diag).msg \in BuildMsgs) =>
          /\ InvalidPositions = {}
          /\ Len(evaluated) = Len(args)

C14_Witness ==
    /\ Len(args) = 2
    /\ args[1] = NameValue("worker_threads", LitIntBig)
    /\ args[2] = Path("multi_thread")
    /\ ResolutionFailed
    /\ evaluated = <<1>>
    /\ Unwrap(diag) = Error(SpanEntry(1), MsgParseIntErr, "worker_threads")

\* Entries that set flavor, in any spelling of the key.
FlavorKeyPositions ==
    {i \in 1..Len(args) :
        args[i].shape = "NameValue" /\ ToLowercase(args[i].key) = "flavor"}

\* C15: when the build step fails because the resolved flavor is Threaded
\* without the capability, the wording is the explicit-flavor message exactly
\* when the list has a `flavor` entry and the default-flavor message exactly
\* when it has none; a `worker_threads` entry does not change the wording.
C15_CapabilityWording ==
    /\ (ResolutionFailed /\ IsCapabilityDiag(Unwrap(diag))) =>
          /\ ~rt_multi_thread
          /\ Unwrap(diag).span = SpanCallSite
          /\ Unwrap(diag).msg = MsgMultiNeedsFeature <=> FlavorKeyPositions # {}
          /\ Unwrap(diag).msg = MsgDefaultMultiDisabled <=> FlavorKeyPositions = {}
          /\ FlavorKeyPositions = {} => ~is_test
    /\ (ResolutionDone /\ InvalidPositions = {} /\ ~rt_multi_thread) =>
          /\ (\E i \in FlavorKeyPositions : args[i].value.s = "multi_thread") =>
                Unwrap(diag).msg = MsgMultiNeedsFeature
          /\ (FlavorKeyPositions = {} /\ ~is_test) =>
                Unwrap(diag).msg = MsgDefaultMultiDisabled

C15_Witness ==
    /\ Len(args) = 2
    /\ args[1] = NameValue("worker_threads", LitInt(4))
    /\ args[2] = NameValue("flavor", LitStr("multi_thread"))
    /\ ResolutionFailed
    /\ Unwrap(diag) = Error(SpanCallSite, MsgMultiNeedsFeature, "")

\* C16: whenever resolution fails because `worker_threads` is present while
\* the resolved flavor is CurrentThread (explicit in any mode, or the
\* test-mode default), the diagnostic is anchored at the `worker_threads`
\* entry, whether it comes before or after the `flavor` entry and whatever
\* the capability flag is.
C16_AnchoredAtWorkers ==
    /\ (ResolutionFailed /\ Unwrap(diag).msg = MsgWorkersNeedMulti) =>
          /\ Cardinality(WorkersKeyPositions) = 1
          /\ \A i \in WorkersKeyPositions : Unwrap(diag).span = SpanEntry(i)
          /\ \/ \E i \in FlavorKeyPositions : args[i].value.s = "current_thread"
             \/ FlavorKeyPositions = {} /\ is_test
    /\ ( /\ ResolutionDone
         /\ InvalidPositions = {}
         /\ WorkersKeyPositions # {}
         /\ \/ \E i \in FlavorKeyPositions : args[i].value.s = "current_thread"
            \/ FlavorKeyPositions = {} /\ is_test ) =>
          /\ ResolutionFailed
          /\ \A i \in WorkersKeyPositions :
                Unwrap(diag) = Error(SpanEntry(i), MsgWorkersNeedMulti, "")

C16_Witness ==
    /\ Len(args) = 2
    /\ args[1] = NameValue("worker_threads", LitInt(4))
    /\ args[2] = NameValue("flavor", LitStr("current_thread"))
    /\ ~is_test
    /\ rt_multi_thread
    /\ ResolutionFailed
    /\ Unwrap(diag) = Error(SpanEntry(1), MsgWorkersNeedMulti, "")

\* Steps that configure the builder, and the registration step.
BuilderSteps == {"builder_new", "builder_worker_threads", "builder_enable_all"}
StmtCount(op) == Cardinality({k \in 1..Len(result) : result[k].op = op})

\* C17: in the generated wrapper the builder kind is the Final
\* Configuration's flavor, the builder's worker-thread count is set exactly
\* when the Final Configuration has one and to that count, the full feature
\* set is always enabled, and the builder is configured only before it is
\* handed to the registration.
C17_BuilderMatchesConfig ==
    /\ IsSome(builder) =>
          /\ ResolutionSucceeded
          /\ IsNone(runtime)
          /\ Unwrap(builder).kind = Unwrap(final).flavor
          /\ IsSome(Unwrap(builder).worker_threads) =>
                Unwrap(builder).worker_threads = Unwrap(final).worker_threads
    /\ IsSome(runtime) =>
          /\ ResolutionSucceeded
          /\ IsNone(builder)
          /\ Unwrap(runtime).kind = Unwrap(final).flavor
          /\ Unwrap(runtime).worker_threads = Unwrap(final).worker_threads
          /\ Unwrap(runtime).enable_all
    /\ \A k \in 1..Len(log) :
          log[k] \in BuilderSteps => \A j \in 1..k : log[j] # "init"
    /\ WrapperGenerated =>
          /\ StmtCount("builder.enable_all") = 1
          /\ StmtCount("tokio::init") = 1
          /\ StmtCount("builder.worker_threads") =
                IF IsSome(Unwrap(final).worker_threads) THEN 1 ELSE 0

C17_Witness ==
    /\ final = Some(FinalConfig(Threaded, Some(4)))
    /\ runtime = Some([kind |-> Threaded, worker_threads |-> Some(4),
                       enable_all |-> TRUE])
    /\ builder = None

\* One step of the draft: from c to d.
DraftStep(c, d) ==
    /\ IsSome(c.flavor) => d.flavor = c.flavor
    /\ IsSome(c.worker_threads) => d.worker_threads = c.worker_threads
    /\ d.default_flavor = c.default_flavor
    /\ d.rt_multi_thread_available = c.rt_multi_thread_available
    /\ d.flavor # c.flavor => d.worker_threads = c.worker_threads
    /\ d.worker_threads # c.worker_threads => d.flavor = c.flavor

\* C18: each settable field of the draft goes from None to Some at most once
\* and never changes afterwards; a rejected set attempt leaves both fields
\* unchanged; setting one field leaves the other field, default_flavor and
\* rt_multi_thread_available unchanged.
C18_FieldsSetOnce ==
    [][ (IsSome(config) /\ IsSome(config')) =>
           /\ DraftStep(Unwrap(config), Unwrap(config'))
           /\ pc' = "rejected" => config' = config
           /\ (pc = "scan" /\ pc' = "scan" /\ next_arg' = next_arg + 1) =>
                 (Unwrap(config').flavor # Unwrap(config).flavor
                     \/ Unwrap(config').worker_threads # Unwrap(config).worker_threads)
      ]_vars

C18_Witness ==
    /\ Len(args) = 2
    /\ args[1] = NameValue("worker_threads", LitInt(1))
    /\ args[2] = NameValue("worker_threads", LitInt(4))
    /\ ResolutionFailed
    /\ Unwrap(diag).msg = MsgWorkersTwice
    /\ Unwrap(Unwrap(config).worker_threads).count = 1

\* An outcome with the diagnostic's anchor given as the entry it points at
\* (not as a position), so that outcomes of reordered lists can be compared.
AnchorOf(args_, span) ==
    [at |-> span.at,
     entry |-> IF span.at \in {"entry", "value"} THEN Some(args_[span.idx]) ELSE None]
OutcomeOf(args_, final_, diag_) ==
    [final |-> final_,
     msg |-> IF IsSome(diag_) THEN Some(Unwrap(diag_).msg) ELSE None,
     arg |-> IF IsSome(diag_) THEN Some(Unwrap(diag_).arg) ELSE None,
     anchor |-> IF IsSome(diag_) THEN Some(AnchorOf(args_, Unwrap(diag_).span))
                ELSE None]
ResolveOutcome(args_) ==
    LET res == Resolve(args_, is_test, rt_multi_thread) IN
    OutcomeOf(args_, res.val, res.err)
Swapped == <<args[2], args[1]>>
OneFlavorOneWorkers ==
    /\ Len(args) = 2
    /\ AcceptableAlone(args[1])
    /\ AcceptableAlone(args[2])
    /\ ToLowercase(args[1].key) # ToLowercase(args[2].key)

\* C19: for a list of one individually valid `flavor` entry and one
\* individually valid `worker_threads` entry, the outcome (the same Final
\* Configuration, or the same diagnostic message anchored at the same entry)
\* is the same for both orders of the two entries, in either mode and with
\* either capability value.
C19_OrderIndependent ==
    (OneFlavorOneWorkers /\ ResolutionDone) =>
        /\ OutcomeOf(args, final, diag) = ResolveOutcome(Swapped)
        /\ OutcomeOf(args, final, diag) = ResolveOutcome(args)

C19_Witness ==
    /\ Len(args) = 2
    /\ args[1] = NameValue("worker_threads", LitInt(4))
    /\ args[2] = NameValue("flavor", LitStr("current_thread"))
    /\ ResolutionFailed
    /\ ResolveOutcome(Swapped).anchor =
          Some([at |-> "entry", entry |-> Some(args[1])])
    /\ Resolve(Swapped, is_test, rt_multi_thread).err =
          Some(Error(SpanEntry(2), MsgWorkersNeedMulti, ""))

\* C20: under CurrentThread the keep-alive thread parks and never ends, and
\* it is never joined: if the user's body completes and the calling thread is
\* scheduled fairly, the generated wrapper finishes (returning after success,
\* terminating abnormally after failure), whatever the keep-alive thread does.
C20_WrapperFinishes ==
    /\ (pc = "expanded") ~> \/ body = "ok" /\ outcome = "returned"
                            \/ body = "err" /\ outcome = "panicked"
    /\ [][ \A k \in 1..Len(keepalive) :
              keepalive[k] = "parked" =>
                  (Len(keepalive') >= k /\ keepalive'[k] = "parked") ]_vars
    /\ [][ outcome # "none" => outcome' = outcome ]_vars

C20_Witness ==
    /\ ResolutionSucceeded
    /\ Unwrap(final).flavor = CurrentThread
    /\ outcome = "returned"
    /\ keepalive = <<"spawned">>

====
